---- MODULE Spec2Model ----
(***************************************************************************)
(* cryptocurrency-warning: the streaming-feed connection manager           *)
(* (services/WebSocketService.js), the threshold tracker                   *)
(* (PriceMonitorService) and the alert deduplicator (NotificationService). *)
(*                                                                         *)
(* Spec       the connection manager: transports, their callbacks, the     *)
(*            reconnect / settle / connect-timeout timers, the caller API. *)
(* SpecAlert  the tracker and the deduplicator on a discrete clock.        *)
(* SpecCodec  the symbol codec of the wire requests and the ticker items.  *)
(* SpecFeed   the ticker frames: parsing, forwarding, tracker update.      *)
(* SpecSweep  the cleanup task of the deduplicator on its own clock.       *)
(* SpecStartup  the startup: init() with retry(connect, 3, 2000).          *)
(* SpecAddSymbol  the startup with addSymbol called in between.            *)
(* SpecReconnect  the reconnect loop left to itself, with fairness.        *)
(***************************************************************************)
EXTENDS Integers, Sequences, FiniteSets, Bags, TLC

(***************************************************************************)
(* Bounds of the model.                                                    *)
(***************************************************************************)
\* transports (new WebSocket(...)) alive at the same time; a closed transport
\* that this.ws no longer references is unreachable and its slot is reused
MaxTransports == 2
\* reconnect / settle timers pending at the same time
MaxTimers == 1
\* notifier calls (_sendToWechat) in flight at the same time
MaxInflight == 2
\* letters in the base of a symbol given to the codec
MaxBaseLen == 5
\* items in the data array of one ticker frame
MaxItems == 3
\* ticker frames handled over one run of the feed path
MaxFrames == 1
\* clock steps of TimeStep ms over one run of the alert path
MaxTicks == 2
\* clock steps of SweepStep ms over one run of the cleanup task
MaxSweepSteps == 10
\* ticks (priceUpdate events) fed to the tracker over one run
MaxUpdates == 3

(***************************************************************************)
(* Program constants.                                                      *)
(***************************************************************************)
\* config.websocket.reconnectAttempts
reconnectAttemptsCap == 5
\* config.websocket.reconnectDelay (ms)
reconnectDelay == 5000

\* config.alerts.cooldownPeriod (ms)
cooldownPeriod == 60000
\* config.alerts.priceChangeThreshold, in percent (0.01 = 1%)
priceChangeThresholdPct == 1
\* thresholds are held in 1/Scale of the price unit, so that
\* price * (1 - 0.01) and price * (1 + 0.01) are exact
Scale == 100
\* the clock of the alert path advances in steps of half a cooldown period
TimeStep == cooldownPeriod \div 2
\* init: retry(() => this.webSocketService.connect(), 3, 2000)
initRetries == 3
\* config.alerts.cleanupInterval (ms)
cleanupInterval == 900000
\* config.alerts.maxAlertAge (ms)
maxAlertAge == 3600000
\* the clock of the cleanup task advances in steps of half a cleanup interval
SweepStep == cleanupInterval \div 2

Symbols == {"BTCUSDT", "ETHUSDT"}

\* the letters symbols given to the codec are made of
Letters == {"A", "D", "S", "T", "U"}

\* tick prices (item.last) fed to the tracker
Prices == {95, 110, 111}

\* {min, max} pairs given to setThresholds, the second one inverted
ThresholdChoices == {<<100, 110>>, <<111, 95>>}

TransportIds == 1..MaxTransports

\* this.ws = null
NoWs == 0

VARIABLES
  ws,                \* this.ws: the current transport, NoWs for null
  sock,              \* per transport: its life cycle (see ReadyState)
  ctimer,            \* per transport: its connectTimeout timer is pending
  isConnected,       \* this.isConnected
  reconnectAttempts, \* this.reconnectAttempts
  subscribers,       \* this.subscribers
  heartbeat,         \* this.heartbeatInterval is set
  reconnectTimers,   \* pending setTimeout(connect, delay) of _attemptReconnect
  settleTimers,      \* pending setTimeout(resubscribe + 'connected') of 'open'
  delays,            \* history: delays given to setTimeout since the counter was last 0
  exhausted,         \* history: 'maxReconnectAttemptsReached' emitted since then
  lastPass,          \* output of the step just taken, when it was a _resubscribeAll pass
  callerClosed,      \* history: transports closed by disconnect() while Connected
  owned,             \* the service is owned by CryptoMonitorService (listeners bound)
  exitCode,          \* process.exit status, Running while the process lives
  lastOut            \* output of the step just taken: call result, signals, wire requests

connVars == <<ws, sock, ctimer, isConnected, reconnectAttempts, subscribers,
              heartbeat, reconnectTimers, settleTimers, delays, exhausted,
              lastPass, callerClosed, owned, exitCode, lastOut>>

VARIABLES
  cryptoData,        \* PriceMonitorService.cryptoData: symbol -> last price, 0 if none
  priceThresholds,   \* PriceMonitorService.priceThresholds: symbol -> {min, max}
  sentAlerts,        \* NotificationService.sentAlerts: alertKey -> Date.now() at set
  inflight,          \* sendWechatAlert calls suspended at await _sendToWechat (a bag)
  cooldownTimers,    \* pending setTimeout(delete alertKey, cooldownPeriod)
  now,               \* Date.now()
  recordOf,          \* history: alertKey -> the (symbol, type) whose alert set the record
  recentDispatch,    \* history: notifier calls started less than cooldownPeriod ago
  lastEvent,         \* output of the step just taken (crossing, dispatch, delivery)
  updates            \* number of ticks fed to the tracker so far

alertVars == <<cryptoData, priceThresholds, sentAlerts, inflight, cooldownTimers,
               now, recordOf, recentDispatch, lastEvent, updates>>

VARIABLES
  codec,             \* a symbol, the feed id sent for it, the symbol read back from it
  frameLog           \* output of the step just taken: per item of the ticker frame, its fate

feedVars == <<codec, frameLog>>

VARIABLES
  sweptAt,           \* Date.now() at the last run of the cleanup task, 0 before the first
  cleaned            \* output of the step just taken: the keys the cleanup task deleted

sweepVars == <<sweptAt, cleaned>>

VARIABLES
  initPhase,         \* where CryptoMonitorService.init() stands (see InitPhases)
  awaited,           \* the transport of the connect() call that init awaits
  retries,           \* retries left to retry(connect, 3, 2000)
  initSent           \* history: what _subscribeDefaultSymbols sent, and on which transport

initVars == <<initPhase, awaited, retries, initSent>>

vars == <<connVars, alertVars, feedVars, sweepVars, initVars>>

Running == -1

NoPass == [ran |-> FALSE, on |-> NoWs, sent |-> {}]

\* the code of ws.close(1000, 'Normal closure')
NormalClosure == 1000

\* codes a 'close' event carries: normal closure, abnormal closure
CloseCodes == {NormalClosure, 1006}

\* this.emit(name, ...); code is the close code of 'disconnected', else 0
Signal(name, code) == [name |-> name, code |-> code]

\* op: the handler or call that ran; sym, sent, on, ret: a subscribe or
\* unsubscribe call, whether its wire request went out, on which transport,
\* and its return value; frame: the inbound frame; code: the code of the
\* 'close' event; signals: what was emitted, in order; closeAsked: the
\* transport and code of ws.close(); scheduled: the delay given to setTimeout
\* by _attemptReconnect; rejected: reject() of the connect() promise was called
NoOut ==
  [op |-> "none", sym |-> "", sent |-> FALSE, on |-> NoWs, ret |-> FALSE,
   frame |-> "", code |-> 0, signals |-> <<>>, closeAsked |-> <<>>,
   scheduled |-> <<>>, rejected |-> FALSE]

(***************************************************************************)
(* The ws library's readyState.  ABORTING is a transport whose handshake   *)
(* or socket was aborted: readyState CLOSING, 'error' then 'close' follow. *)
(***************************************************************************)
ReadyState(t) ==
  IF sock[t] = "ABORTING" THEN "CLOSING" ELSE sock[t]

\* ws.close(code, reason): a handshake in progress is aborted, an open
\* transport starts the closing handshake, otherwise nothing happens
WsClose(s, t) ==
  IF t = NoWs THEN s
  ELSE IF s[t] = "CONNECTING" THEN [s EXCEPT ![t] = "ABORTING"]
  ELSE IF s[t] = "OPEN" THEN [s EXCEPT ![t] = "CLOSING"]
  ELSE s

\* ws.terminate()
WsTerminateIgnored(s, t) == s

WsTerminate(s, t) ==
  IF s[t] = "CONNECTING" THEN [s EXCEPT ![t] = "ABORTING"]
  ELSE IF s[t] = "OPEN" THEN [s EXCEPT ![t] = "CLOSING"]
  ELSE s

\* a closed transport that this.ws (w) does not reference is garbage
Gc(s, w) ==
  [t \in TransportIds |-> IF s[t] = "CLOSED" /\ t # w THEN "NONE" ELSE s[t]]

Unused == {t \in TransportIds : sock[t] = "NONE"}

NextTransport == CHOOSE t \in Unused : \A u \in Unused : t <= u

(***************************************************************************)
(* _attemptReconnect                                                       *)
(***************************************************************************)
AttemptCapReachedLate(n) == n > reconnectAttemptsCap

AttemptCapReached(n) == n >= reconnectAttemptsCap

BackoffDelayFlat(n) == reconnectDelay

BackoffDelay(n) == reconnectDelay * n

(***************************************************************************)
(* _sendSubscription(symbol): the guard deciding whether the wire request  *)
(* is sent.                                                                *)
(***************************************************************************)
CanSendFlagOnly == isConnected

CanSend ==
  /\ isConnected
  /\ ws # NoWs
  /\ ReadyState(ws) = "OPEN"

\* _resubscribeAll: the symbols whose subscribe request goes out
ResubscribedAlways == subscribers

Resubscribed == {s \in subscribers : CanSend}

\* _stopHeartbeat: clearInterval, this.heartbeatInterval = null
StopHeartbeatKept(h) == h

StopHeartbeat(h) == FALSE

\* the signals of the 'close' handler: 'disconnected' with the close code,
\* then _attemptReconnect's 'maxReconnectAttemptsReached' at the cap
CloseSignals(code, n) ==
  <<Signal("disconnected", code)>> \o
    (IF AttemptCapReached(n)
     THEN <<Signal("maxReconnectAttemptsReached", 0)>> ELSE <<>>)

\* disconnect(): if (this.ws) this.ws.close(1000, 'Normal closure')
CloseAsked == IF ws = NoWs THEN <<>> ELSE <<ws, NormalClosure>>

\* inbound frames other than ticker data: text that JSON.parse rejects, an
\* error event, a subscribe confirmation
Frames == {"unparseable", "error", "subscribe"}

\* the 'message' handler and _handleMessage: what the frame makes it emit
FrameSignalsSilent(frame) == <<>>

FrameSignals(frame) ==
  IF frame \in {"unparseable", "error"}
  THEN <<Signal("error", 0)>> ELSE <<>>

(***************************************************************************)
(* Init: the state after new WebSocketService(), either stand-alone or     *)
(* inside new CryptoMonitorService() (_bindEventHandlers).                 *)
(***************************************************************************)
InitConn ==
  /\ ws = NoWs
  /\ sock = [t \in TransportIds |-> "NONE"]
  /\ ctimer = [t \in TransportIds |-> FALSE]
  /\ isConnected = FALSE
  /\ reconnectAttempts = 0
  /\ subscribers = {}
  /\ heartbeat = FALSE
  /\ reconnectTimers = 0
  /\ settleTimers = 0
  /\ delays = <<>>
  /\ exhausted = FALSE
  /\ lastPass = NoPass
  /\ callerClosed = {}
  /\ owned \in BOOLEAN
  /\ exitCode = Running
  /\ lastOut = NoOut

(***************************************************************************)
(* connect(): a new transport replaces this.ws and its connectTimeout is   *)
(* armed.                                                                  *)
(***************************************************************************)
DoConnect ==
  /\ Unused # {}
  /\ ws' = NextTransport
  /\ sock' = Gc([sock EXCEPT ![NextTransport] = "CONNECTING"], NextTransport)
  /\ ctimer' = [ctimer EXCEPT ![NextTransport] = TRUE]

\* connect() called by the owner / a caller while the service holds no transport
Connect ==
  /\ UNCHANGED <<alertVars, feedVars, sweepVars, initVars>>
  /\ exitCode = Running
  /\ ws = NoWs
  /\ DoConnect
  /\ lastPass' = NoPass
  /\ lastOut' = NoOut
  /\ UNCHANGED <<isConnected, reconnectAttempts, subscribers, heartbeat,
                 reconnectTimers, settleTimers, delays, exhausted,
                 callerClosed, owned, exitCode>>

\* the setTimeout callback of _attemptReconnect: await this.connect()
ReconnectTimerFire ==
  /\ UNCHANGED <<alertVars, feedVars, sweepVars, initVars>>
  /\ exitCode = Running
  /\ reconnectTimers > 0
  /\ reconnectTimers' = reconnectTimers - 1
  /\ DoConnect
  /\ lastPass' = NoPass
  /\ lastOut' = NoOut
  /\ UNCHANGED <<isConnected, reconnectAttempts, subscribers, heartbeat,
                 settleTimers, delays, exhausted, callerClosed, owned, exitCode>>

(***************************************************************************)
(* ws.on('open')                                                           *)
(***************************************************************************)
OnOpen(t) ==
  /\ UNCHANGED <<alertVars, feedVars, sweepVars, initVars>>
  /\ exitCode = Running
  /\ sock[t] = "CONNECTING"
  /\ settleTimers < MaxTimers
  /\ sock' = [sock EXCEPT ![t] = "OPEN"]
  /\ ctimer' = [ctimer EXCEPT ![t] = FALSE]
  /\ isConnected' = TRUE
  /\ reconnectAttempts' = 0
  /\ heartbeat' = TRUE
  /\ settleTimers' = settleTimers + 1
  /\ delays' = <<>>
  /\ exhausted' = FALSE
  /\ lastPass' = NoPass
  /\ lastOut' = [NoOut EXCEPT !.op = "open", !.on = t]
  /\ UNCHANGED <<ws, subscribers, reconnectTimers, callerClosed, owned, exitCode>>

\* the settle-delay timer of 'open': _resubscribeAll(), emit('connected')
SettleTimerFire ==
  /\ UNCHANGED <<alertVars, feedVars, sweepVars, initVars>>
  /\ exitCode = Running
  /\ settleTimers > 0
  /\ settleTimers' = settleTimers - 1
  /\ lastPass' = [ran |-> TRUE,
                  on |-> IF Resubscribed = {} THEN NoWs ELSE ws,
                  sent |-> Resubscribed]
  /\ lastOut' = [NoOut EXCEPT !.op = "settle",
                              !.signals = <<Signal("connected", 0)>>]
  /\ UNCHANGED <<ws, sock, ctimer, isConnected, reconnectAttempts, subscribers,
                 heartbeat, reconnectTimers, delays, exhausted, callerClosed,
                 owned, exitCode>>

(***************************************************************************)
(* ws.on('error'): a network / handshake error, or the abort that close()  *)
(* and terminate() cause on a transport still connecting.                  *)
(***************************************************************************)
OnError(t) ==
  /\ UNCHANGED <<alertVars, feedVars, sweepVars, initVars>>
  /\ exitCode = Running
  /\ sock[t] \in {"CONNECTING", "OPEN", "ABORTING"}
  /\ sock' = [sock EXCEPT ![t] = "CLOSING"]
  /\ ctimer' = [ctimer EXCEPT ![t] = FALSE]
  /\ isConnected' = FALSE
  /\ lastPass' = NoPass
  /\ lastOut' = [NoOut EXCEPT !.op = "error", !.on = t, !.rejected = TRUE,
                              !.signals = <<Signal("error", 0)>>]
  /\ UNCHANGED <<ws, reconnectAttempts, subscribers, heartbeat, reconnectTimers,
                 settleTimers, delays, exhausted, callerClosed, owned, exitCode>>

(***************************************************************************)
(* disconnect(), as a state update on the transports s.                    *)
(***************************************************************************)
DisconnectEffectKeepsCounter(s) ==
  /\ heartbeat' = StopHeartbeat(heartbeat)
  /\ sock' = Gc(WsClose(s, ws), NoWs)
  /\ ws' = NoWs
  /\ isConnected' = FALSE
  /\ reconnectAttempts' = reconnectAttempts

DisconnectEffect(s) ==
  /\ heartbeat' = StopHeartbeat(heartbeat)
  /\ sock' = Gc(WsClose(s, ws), NoWs)
  /\ ws' = NoWs
  /\ isConnected' = FALSE
  /\ reconnectAttempts' = 0

(***************************************************************************)
(* ws.on('close'): clearTimeout, isConnected = false, _stopHeartbeat,      *)
(* emit('disconnected'), _attemptReconnect().  When the owner listens,     *)
(* 'maxReconnectAttemptsReached' runs CryptoMonitorService.shutdown().     *)
(***************************************************************************)
OnClose(t) ==
  /\ UNCHANGED <<alertVars, feedVars, sweepVars, initVars>>
  /\ exitCode = Running
  /\ sock[t] \in {"OPEN", "CLOSING"}
  /\ ctimer' = [ctimer EXCEPT ![t] = FALSE]
  /\ callerClosed' = callerClosed \ {t}
  /\ lastPass' = NoPass
  /\ \E code \in CloseCodes :
       lastOut' = [NoOut EXCEPT
                     !.op = "close", !.on = t, !.code = code,
                     !.signals = CloseSignals(code, reconnectAttempts),
                     !.scheduled =
                       IF AttemptCapReached(reconnectAttempts) THEN <<>>
                       ELSE <<BackoffDelay(reconnectAttempts + 1)>>,
                     !.closeAsked =
                       IF AttemptCapReached(reconnectAttempts) /\ owned
                       THEN CloseAsked ELSE <<>>]
  /\ IF AttemptCapReached(reconnectAttempts)
     THEN /\ exhausted' = TRUE
          /\ IF owned
             THEN /\ DisconnectEffect([sock EXCEPT ![t] = "CLOSED"])
                  /\ exitCode' = 0
             ELSE /\ sock' = Gc([sock EXCEPT ![t] = "CLOSED"], ws)
                  /\ isConnected' = FALSE
                  /\ heartbeat' = StopHeartbeat(heartbeat)
                  /\ UNCHANGED <<ws, reconnectAttempts, exitCode>>
          /\ UNCHANGED <<reconnectTimers, delays>>
     ELSE /\ reconnectTimers < MaxTimers
          /\ sock' = Gc([sock EXCEPT ![t] = "CLOSED"], ws)
          /\ isConnected' = FALSE
          /\ heartbeat' = StopHeartbeat(heartbeat)
          /\ reconnectAttempts' = reconnectAttempts + 1
          /\ delays' = Append(delays, BackoffDelay(reconnectAttempts + 1))
          /\ reconnectTimers' = reconnectTimers + 1
          /\ UNCHANGED <<ws, exhausted, exitCode>>
  /\ UNCHANGED <<subscribers, settleTimers, owned>>

(***************************************************************************)
(* The connectTimeout callback of connect(): it reads this.ws, not the     *)
(* transport it was armed for.  With this.ws = null the read throws inside *)
(* the timer callback and the process ends.                                *)
(***************************************************************************)
ConnectTimeout(t) ==
  /\ UNCHANGED <<alertVars, feedVars, sweepVars, initVars>>
  /\ exitCode = Running
  /\ ctimer[t]
  /\ ctimer' = [ctimer EXCEPT ![t] = FALSE]
  /\ lastPass' = NoPass
  /\ lastOut' = [NoOut EXCEPT
                   !.op = "connectTimeout", !.on = t,
                   !.rejected = (ws # NoWs /\ ReadyState(ws) = "CONNECTING")]
  /\ IF ws = NoWs
     THEN /\ exitCode' = 1
          /\ sock' = sock
     ELSE /\ sock' = IF ReadyState(ws) = "CONNECTING"
                     THEN WsTerminate(sock, ws) ELSE sock
          /\ exitCode' = exitCode
  /\ UNCHANGED <<ws, isConnected, reconnectAttempts, subscribers, heartbeat,
                 reconnectTimers, settleTimers, delays, exhausted,
                 callerClosed, owned>>

(***************************************************************************)
(* subscribe(symbol) / unsubscribe(symbol)                                 *)
(***************************************************************************)
Subscribe(s) ==
  /\ UNCHANGED <<alertVars, feedVars, sweepVars, initVars>>
  /\ exitCode = Running
  /\ subscribers' = subscribers \cup {s}
  /\ lastPass' = NoPass
  /\ lastOut' = [NoOut EXCEPT !.op = "subscribe", !.sym = s, !.sent = CanSend,
                              !.on = IF CanSend THEN ws ELSE NoWs,
                              !.ret = CanSend]
  /\ UNCHANGED <<ws, sock, ctimer, isConnected, reconnectAttempts, heartbeat,
                 reconnectTimers, settleTimers, delays, exhausted,
                 callerClosed, owned, exitCode>>

Unsubscribe(s) ==
  /\ UNCHANGED <<alertVars, feedVars, sweepVars, initVars>>
  /\ exitCode = Running
  /\ subscribers' = subscribers \ {s}
  /\ lastPass' = NoPass
  /\ lastOut' = [NoOut EXCEPT !.op = "unsubscribe", !.sym = s, !.sent = CanSend,
                              !.on = IF CanSend THEN ws ELSE NoWs,
                              !.ret = CanSend]
  /\ UNCHANGED <<ws, sock, ctimer, isConnected, reconnectAttempts, heartbeat,
                 reconnectTimers, settleTimers, delays, exhausted,
                 callerClosed, owned, exitCode>>

(***************************************************************************)
(* ws.on('message') for a frame that carries no ticker data: JSON.parse    *)
(* and _handleMessage inside try, emit('error') from the catch or for an   *)
(* error event.  The handler stays attached to every transport it was      *)
(* bound to and never looks at this.ws.  Ticker frames are FeedTickers.    *)
(***************************************************************************)
OnMessage(t, frame) ==
  /\ UNCHANGED <<alertVars, feedVars, sweepVars, initVars>>
  /\ exitCode = Running
  /\ sock[t] \in {"OPEN", "CLOSING"}
  /\ lastPass' = NoPass
  /\ lastOut' = [NoOut EXCEPT !.op = "message", !.frame = frame,
                              !.signals = FrameSignals(frame)]
  /\ UNCHANGED <<ws, sock, ctimer, isConnected, reconnectAttempts, subscribers,
                 heartbeat, reconnectTimers, settleTimers, delays, exhausted,
                 callerClosed, owned, exitCode>>

(***************************************************************************)
(* disconnect() called on the service by its user.                         *)
(***************************************************************************)
Disconnect ==
  /\ UNCHANGED <<alertVars, feedVars, sweepVars, initVars>>
  /\ exitCode = Running
  /\ ~owned
  /\ DisconnectEffect(sock)
  /\ callerClosed' = IF CanSend THEN callerClosed \cup {ws} ELSE callerClosed
  /\ delays' = <<>>
  /\ exhausted' = FALSE
  /\ lastPass' = NoPass
  /\ lastOut' = [NoOut EXCEPT !.op = "disconnect", !.closeAsked = CloseAsked]
  /\ UNCHANGED <<ctimer, subscribers, reconnectTimers, settleTimers, owned,
                 exitCode>>

(***************************************************************************)
(* CryptoMonitorService.shutdown(): disconnect(), removeAllListeners(),    *)
(* process.exit(0).                                                        *)
(***************************************************************************)
Shutdown ==
  /\ UNCHANGED <<alertVars, feedVars, sweepVars, initVars>>
  /\ exitCode = Running
  /\ owned
  /\ DisconnectEffect(sock)
  /\ exitCode' = 0
  /\ lastPass' = NoPass
  /\ lastOut' = [NoOut EXCEPT !.op = "shutdown", !.closeAsked = CloseAsked]
  /\ UNCHANGED <<ctimer, subscribers, reconnectTimers, settleTimers, delays,
                 exhausted, callerClosed, owned>>

Next ==
  \/ Connect
  \/ ReconnectTimerFire
  \/ SettleTimerFire
  \/ \E t \in TransportIds : OnOpen(t)
  \/ \E t \in TransportIds : OnError(t)
  \/ \E t \in TransportIds : OnClose(t)
  \/ \E t \in TransportIds : ConnectTimeout(t)
  \/ \E s \in Symbols : Subscribe(s)
  \/ \E s \in Symbols : Unsubscribe(s)
  \/ \E t \in TransportIds, frame \in Frames : OnMessage(t, frame)
  \/ Disconnect
  \/ Shutdown

(***************************************************************************)
(* The threshold tracker (PriceMonitorService) and the alert deduplicator  *)
(* (NotificationService).                                                  *)
(***************************************************************************)
NoBand == [min |-> -1, max |-> -1]

\* config.symbols.thresholds, in 1/Scale units
ConfigThresholds ==
  [s \in Symbols |->
     IF s = "BTCUSDT" THEN [min |-> 108000 * Scale, max |-> 108000 * Scale]
     ELSE [min |-> 2400 * Scale, max |-> 2400 * Scale]]

NoEvent ==
  [kind |-> "none", sym |-> "", price |-> 0, type |-> "none",
   dispatched |-> FALSE, key |-> "", success |-> FALSE]

\* _handlePriceExceeded: the alert key of a crossing
alertKeyBySymbol(symbol, type) == symbol \o "_price_exceeded"

alertKey(symbol, type) == symbol \o "_" \o type \o "_price_exceeded"

\* _checkPriceThresholds: max is compared first, then min
CrossingTypeMinFirst(price, band) ==
  IF band = NoBand THEN "none"
  ELSE IF price * Scale < band.min THEN "min"
  ELSE IF price * Scale > band.max THEN "max"
  ELSE "none"

CrossingType(price, band) ==
  IF band = NoBand THEN "none"
  ELSE IF price * Scale > band.max THEN "max"
  ELSE IF price * Scale < band.min THEN "min"
  ELSE "none"

\* _updateThresholds: the band around currentPrice
RebasedBandAbsolute(currentPrice) ==
  [min |-> currentPrice * Scale - priceChangeThresholdPct,
   max |-> currentPrice * Scale + priceChangeThresholdPct]

RebasedBandSwapped(currentPrice) ==
  [min |-> currentPrice * (Scale + priceChangeThresholdPct),
   max |-> currentPrice * (Scale - priceChangeThresholdPct)]

RebasedBandZeroWidth(currentPrice) ==
  [min |-> currentPrice * Scale, max |-> currentPrice * Scale]

RebasedBand(currentPrice) ==
  [min |-> currentPrice * (Scale - priceChangeThresholdPct),
   max |-> currentPrice * (Scale + priceChangeThresholdPct)]

\* sendWechatAlert, up to its await: is the alert skipped as a repeat
Suppressed(key) == key \in DOMAIN sentAlerts

MapSet(f, k, v) == [x \in DOMAIN f \cup {k} |-> IF x = k THEN v ELSE f[x]]

MapDelete(f, k) == [x \in DOMAIN f \ {k} |-> f[x]]

InitAlert ==
  /\ cryptoData = [s \in Symbols |-> 0]
  /\ priceThresholds = ConfigThresholds
  /\ sentAlerts = << >>
  /\ inflight = EmptyBag
  /\ cooldownTimers = {}
  /\ now = 0
  /\ recordOf = << >>
  /\ recentDispatch = {}
  /\ lastEvent = NoEvent
  /\ updates = 0

(***************************************************************************)
(* updateCryptoData(symbol, data): store the tick, _checkPriceThresholds,  *)
(* on a crossing _handlePriceExceeded: _updateThresholds, then             *)
(* sendWechatAlert(message, alertKey) up to its await (not awaited).       *)
(***************************************************************************)
UpdateCryptoData(symbol, price) ==
  LET type == CrossingType(price, priceThresholds[symbol])
      key == alertKey(symbol, type)
      call == [key |-> key, sym |-> symbol, type |-> type]
      dispatch == type # "none" /\ ~Suppressed(key)
  IN
  /\ UNCHANGED <<connVars, feedVars, sweepVars, initVars>>
  /\ updates < MaxUpdates
  /\ updates' = updates + 1
  /\ cryptoData' = [cryptoData EXCEPT ![symbol] = price]
  /\ priceThresholds' =
       IF type = "none" THEN priceThresholds
       ELSE [priceThresholds EXCEPT ![symbol] = RebasedBand(price)]
  /\ IF dispatch
     THEN /\ BagCardinality(inflight) < MaxInflight
          /\ inflight' = inflight (+) SetToBag({call})
          /\ recentDispatch' =
               recentDispatch \cup {[sym |-> symbol, type |-> type, at |-> now]}
     ELSE UNCHANGED <<inflight, recentDispatch>>
  /\ lastEvent' = [NoEvent EXCEPT !.kind = "update", !.sym = symbol,
                                  !.price = price, !.type = type,
                                  !.dispatched = dispatch]
  /\ UNCHANGED <<sentAlerts, cooldownTimers, now, recordOf>>

(***************************************************************************)
(* sendWechatAlert after its await: _sendToWechat resolved true (errcode   *)
(* 0) or false (rejected by the webhook, unparsable answer, network        *)
(* error).                                                                 *)
(***************************************************************************)
DeliveryDoneRestoresBand(call, success) ==
  /\ UNCHANGED <<connVars, feedVars, sweepVars, initVars>>
  /\ BagIn(call, inflight)
  /\ inflight' = inflight (-) SetToBag({call})
  /\ IF success
     THEN /\ sentAlerts' = MapSet(sentAlerts, call.key, now)
          /\ recordOf' = MapSet(recordOf, call.key, <<call.sym, call.type>>)
          /\ cooldownTimers' =
               cooldownTimers \cup {[key |-> call.key, due |-> now + cooldownPeriod]}
     ELSE UNCHANGED <<sentAlerts, recordOf, cooldownTimers>>
  /\ lastEvent' = [NoEvent EXCEPT !.kind = "delivery", !.sym = call.sym,
                                  !.type = call.type, !.key = call.key,
                                  !.success = success]
  /\ priceThresholds' =
       IF success THEN priceThresholds
       ELSE [priceThresholds EXCEPT ![call.sym] = ConfigThresholds[call.sym]]
  /\ UNCHANGED <<cryptoData, now, recentDispatch, updates>>

DeliveryDone(call, success) ==
  /\ UNCHANGED <<connVars, feedVars, sweepVars, initVars>>
  /\ BagIn(call, inflight)
  /\ inflight' = inflight (-) SetToBag({call})
  /\ IF success
     THEN /\ sentAlerts' = MapSet(sentAlerts, call.key, now)
          /\ recordOf' = MapSet(recordOf, call.key, <<call.sym, call.type>>)
          /\ cooldownTimers' =
               cooldownTimers \cup {[key |-> call.key, due |-> now + cooldownPeriod]}
     ELSE UNCHANGED <<sentAlerts, recordOf, cooldownTimers>>
  /\ lastEvent' = [NoEvent EXCEPT !.kind = "delivery", !.sym = call.sym,
                                  !.type = call.type, !.key = call.key,
                                  !.success = success]
  /\ UNCHANGED <<cryptoData, priceThresholds, now, recentDispatch, updates>>

\* the cooldown timer of sendWechatAlert: this.sentAlerts.delete(alertKey)
CooldownTimerFire(timer) ==
  /\ UNCHANGED <<connVars, feedVars, sweepVars, initVars>>
  /\ timer \in cooldownTimers
  /\ timer.due <= now
  /\ cooldownTimers' = cooldownTimers \ {timer}
  /\ sentAlerts' = MapDelete(sentAlerts, timer.key)
  /\ recordOf' = MapDelete(recordOf, timer.key)
  /\ lastEvent' = NoEvent
  /\ UNCHANGED <<cryptoData, priceThresholds, inflight, now, recentDispatch, updates>>

\* setThresholds(symbol, min, max), called for a symbol before its first tick
\* (addSymbol sets the band when it subscribes the symbol)
SetThresholds(symbol, min, max) ==
  /\ UNCHANGED <<connVars, feedVars, sweepVars, initVars>>
  /\ cryptoData[symbol] = 0
  /\ priceThresholds' =
       [priceThresholds EXCEPT ![symbol] = [min |-> min * Scale, max |-> max * Scale]]
  /\ lastEvent' = NoEvent
  /\ UNCHANGED <<cryptoData, sentAlerts, inflight, cooldownTimers, now, recordOf,
                 recentDispatch, updates>>

\* time passes; a timer that is due runs before the clock moves on
Tick ==
  /\ UNCHANGED <<connVars, feedVars, sweepVars, initVars>>
  /\ now + TimeStep <= MaxTicks * TimeStep
  /\ \A timer \in cooldownTimers : timer.due > now
  /\ now' = now + TimeStep
  /\ recentDispatch' = {d \in recentDispatch : now' - d.at < cooldownPeriod}
  /\ lastEvent' = NoEvent
  /\ UNCHANGED <<cryptoData, priceThresholds, sentAlerts, inflight,
                 cooldownTimers, recordOf, updates>>

NextAlert ==
  \/ \E symbol \in Symbols, price \in Prices : UpdateCryptoData(symbol, price)
  \/ \E call \in BagToSet(inflight), success \in BOOLEAN : DeliveryDone(call, success)
  \/ \E timer \in cooldownTimers : CooldownTimerFire(timer)
  \/ \E symbol \in Symbols, c \in ThresholdChoices : SetThresholds(symbol, c[1], c[2])
  \/ Tick

(***************************************************************************)
(* The symbol codec.  Symbols and feed ids are sequences of one-character  *)
(* strings; replace(pattern, replacement) with a string pattern replaces   *)
(* the first occurrence only.                                              *)
(***************************************************************************)
USDT == <<"U", "S", "D", "T">>

\* String.prototype.endsWith
EndsWith(str, suffix) ==
  /\ Len(str) >= Len(suffix)
  /\ SubSeq(str, Len(str) - Len(suffix) + 1, Len(str)) = suffix

\* String.prototype.startsWith
StartsWith(str, prefix) ==
  /\ Len(str) >= Len(prefix)
  /\ SubSeq(str, 1, Len(prefix)) = prefix

\* String.prototype.indexOf, counted from 1; 0 when there is no occurrence
IndexOf(str, pattern) ==
  LET hits == {i \in 1..(Len(str) - Len(pattern) + 1) :
                 SubSeq(str, i, i + Len(pattern) - 1) = pattern}
  IN IF hits = {} THEN 0 ELSE CHOOSE i \in hits : \A j \in hits : i <= j

\* String.prototype.replace with a string pattern
ReplaceFirst(str, pattern, replacement) ==
  LET i == IndexOf(str, pattern)
  IN IF i = 0 THEN str
     ELSE SubSeq(str, 1, i - 1) \o replacement
            \o SubSeq(str, i + Len(pattern), Len(str))

\* _convertSymbolForOKX
ConvertSymbolForOKX(symbol) ==
  IF EndsWith(symbol, USDT)
  THEN ReplaceFirst(symbol, USDT, <<>>) \o <<"-">> \o USDT
  ELSE symbol

\* _convertOKXSymbolBack
ConvertOKXSymbolBack(okxSymbol) == ReplaceFirst(okxSymbol, <<"-">>, <<>>)

\* isValidSymbol: /^[A-Z]{2,10}USDT$/ over the letters of the model
IsValidSymbol(symbol) ==
  /\ EndsWith(symbol, USDT)
  /\ Len(symbol) - Len(USDT) \in 2..10
  /\ \A i \in 1..Len(symbol) : symbol[i] \in Letters

\* the valid symbols whose base has at most MaxBaseLen letters
ValidSymbols ==
  {symbol \in {base \o USDT :
                base \in UNION {[1..n -> Letters] : n \in 1..MaxBaseLen}} :
     IsValidSymbol(symbol)}

NoCodec == [symbol |-> <<>>, feedId |-> <<>>, back |-> <<>>]

\* a valid symbol handed to the codec
CodecInputs == {[NoCodec EXCEPT !.symbol = symbol] : symbol \in ValidSymbols}

InitFeed ==
  /\ codec = NoCodec
  /\ frameLog = <<>>

\* _sendSubscription(symbol): the instId put on the wire
ToFeedId ==
  /\ UNCHANGED <<connVars, alertVars, sweepVars, initVars>>
  /\ codec.symbol # <<>>
  /\ codec.feedId = <<>>
  /\ codec' = [codec EXCEPT !.feedId = ConvertSymbolForOKX(codec.symbol)]
  /\ UNCHANGED frameLog

\* _parsePriceData(item) for an item carrying that instId: the symbol read back
FromFeedId ==
  /\ UNCHANGED <<connVars, alertVars, sweepVars, initVars>>
  /\ codec.feedId # <<>>
  /\ codec.back = <<>>
  /\ codec' = [codec EXCEPT !.back = ConvertOKXSymbolBack(codec.feedId)]
  /\ UNCHANGED frameLog

NextCodec ==
  \/ ToFeedId
  \/ FromFeedId

(***************************************************************************)
(* Ticker frames: _handleMessage's forEach over data.data, _parsePriceData *)
(* and, through the 'priceUpdate' listener, updateCryptoData.              *)
(***************************************************************************)
\* parseFloat's results that are not finite numbers.  Infinity stands above
\* every finite value of the model, and so do Infinity x 0.99 and x 1.01
NaN == -1

Infinity == 1000000

InfinityText == <<"I", "n", "f", "i", "n", "i", "t", "y">>

DigitChars == <<"0", "1", "2", "3", "4", "5", "6", "7", "8", "9">>

IsDigit(c) == \E i \in DOMAIN DigitChars : DigitChars[i] = c

DigitValue(c) == (CHOOSE i \in DOMAIN DigitChars : DigitChars[i] = c) - 1

RECURSIVE Decimal(_)
Decimal(digits) ==
  IF digits = <<>> THEN 0
  ELSE Decimal(SubSeq(digits, 1, Len(digits) - 1)) * 10
         + DigitValue(digits[Len(digits)])

\* parseFloat(text) for unsigned texts without a fraction: the longest prefix
\* that is a number is read, NaN when there is none
ParseFloat(text) ==
  LET n == CHOOSE k \in 0..Len(text) :
             /\ \A i \in 1..k : IsDigit(text[i])
             /\ k < Len(text) => ~IsDigit(text[k + 1])
  IN IF StartsWith(text, InfinityText) THEN Infinity
     ELSE IF n = 0 THEN NaN
     ELSE Decimal(SubSeq(text, 1, n))

\* a string of the model from its characters
RECURSIVE Str(_)
Str(chars) == IF chars = <<>> THEN "" ELSE Head(chars) \o Str(Tail(chars))

\* the ticker items fed to the manager: instId, last and open24h as texts.
\* XRPUSDT has no band in config.symbols.thresholds
TickerItem(instId, last, open24h) ==
  [instId |-> instId, last |-> last, open24h |-> open24h]

TickerItems ==
  LET btc == <<"B", "T", "C", "-", "U", "S", "D", "T">>
      xrp == <<"X", "R", "P", "-", "U", "S", "D", "T">>
  IN {TickerItem(btc, <<"9", "5">>, <<"1", "0", "0">>),
      TickerItem(btc, <<"a", "b", "c">>, <<"1", "0", "0">>),
      TickerItem(btc, InfinityText, <<"1", "0", "0">>),
      TickerItem(xrp, <<"9", "5">>, <<"1", "0", "0">>),
      TickerItem(xrp, <<"9", "5">>, <<"a", "b", "c">>)}

TickerFrames == UNION {[1..n -> TickerItems] : n \in 1..MaxItems}

NoTick == [symbol |-> "", price |-> NaN]

\* _parsePriceData: null (NoTick) when isNaN(last) || isNaN(open24h)
ParsePriceData(item) ==
  LET last == ParseFloat(item.last)
      open24h == ParseFloat(item.open24h)
  IN IF last = NaN \/ open24h = NaN THEN NoTick
     ELSE [symbol |-> Str(ConvertOKXSymbolBack(item.instId)), price |-> last]

\* _parsePriceData of every item of the model
ParsedTicks == [item \in TickerItems |-> ParsePriceData(item)]

\* this.priceThresholds[symbol], NoBand for undefined
BandOfDefault(thresholds, symbol) ==
  IF symbol \in DOMAIN thresholds THEN thresholds[symbol]
  ELSE [min |-> 0, max |-> 0]

BandOf(thresholds, symbol) ==
  IF symbol \in DOMAIN thresholds THEN thresholds[symbol] ELSE NoBand

\* updateCryptoData(symbol, data) as a function of the tracker's state st,
\* item being the ticker item that data was parsed from; warned: the
\* console.warn of _checkPriceThresholds for a symbol without a band ran
TrackerUpdate(st, item, symbol, price) ==
  LET type == CrossingType(price, BandOf(st.priceThresholds, symbol))
      key == alertKey(symbol, type)
      dispatch == type # "none" /\ ~Suppressed(key)
  IN [cryptoData |-> MapSet(st.cryptoData, symbol, price),
      priceThresholds |->
        IF type = "none" THEN st.priceThresholds
        ELSE MapSet(st.priceThresholds, symbol, RebasedBand(price)),
      inflight |->
        IF dispatch
        THEN st.inflight (+) SetToBag({[key |-> key, sym |-> symbol, type |-> type]})
        ELSE st.inflight,
      recentDispatch |->
        IF dispatch
        THEN st.recentDispatch \cup {[sym |-> symbol, type |-> type, at |-> now]}
        ELSE st.recentDispatch,
      log |-> Append(st.log, [item |-> item, forwarded |-> TRUE,
                              symbol |-> symbol, price |-> price,
                              type |-> type, dispatched |-> dispatch,
                              warned |->
                                BandOf(st.priceThresholds, symbol) = NoBand])]

\* data.data.forEach: the items from the i-th on, each parsed and, when
\* valid, forwarded before the next one is looked at
RECURSIVE HandleItems(_, _, _)
HandleItems(st, items, i) ==
  IF i > Len(items) THEN st
  ELSE LET tick == ParsedTicks[items[i]]
       IN HandleItems(
            IF tick = NoTick
            THEN [st EXCEPT !.log =
                    Append(@, [item |-> items[i], forwarded |-> FALSE,
                               symbol |-> "", price |-> NaN,
                               type |-> "none", dispatched |-> FALSE,
                               warned |-> FALSE])]
            ELSE TrackerUpdate(st, items[i], tick.symbol, tick.price),
            items, i + 1)

\* ws.on('message') for a ticker frame with the data array items
FeedTickers(items) ==
  /\ UNCHANGED <<connVars, codec, sweepVars, initVars>>
  /\ updates < MaxFrames
  /\ updates' = updates + 1
  /\ \E st \in {HandleItems([cryptoData |-> cryptoData,
                              priceThresholds |-> priceThresholds,
                              inflight |-> inflight,
                              recentDispatch |-> recentDispatch,
                              log |-> <<>>], items, 1)} :
       /\ BagCardinality(st.inflight) <= MaxInflight
       /\ cryptoData' = st.cryptoData
       /\ priceThresholds' = st.priceThresholds
       /\ inflight' = st.inflight
       /\ recentDispatch' = st.recentDispatch
       /\ frameLog' = st.log
  /\ lastEvent' = NoEvent
  /\ UNCHANGED <<sentAlerts, cooldownTimers, now, recordOf>>

NextFeed == \E items \in TickerFrames : FeedTickers(items)

(***************************************************************************)
(* The cleanup task of NotificationService (startCleanupTask): a           *)
(* setInterval of cleanupInterval ms started by the constructor.  The      *)
(* records are written by sendWechatAlert after a successful delivery; the *)
(* deletion by the cooldown timer of a record may run at any time or not   *)
(* at all.                                                                 *)
(***************************************************************************)
\* the alert keys whose records the cleanup task is run on
SweepKeys == {alertKey("BTCUSDT", "max"), alertKey("BTCUSDT", "min")}

\* the test of the cleanup task: now - timestamp > config.alerts.maxAlertAge
ExpiredAtAge(timestamp, t) == t - timestamp >= maxAlertAge

Expired(timestamp, t) == t - timestamp > maxAlertAge

InitSweep ==
  /\ sweptAt = 0
  /\ cleaned = {}

\* sendWechatAlert after a successful delivery: sentAlerts.set(alertKey, Date.now())
RecordAlert(key) ==
  /\ UNCHANGED <<connVars, feedVars, initVars>>
  /\ sentAlerts' = MapSet(sentAlerts, key, now)
  /\ cleaned' = {}
  /\ UNCHANGED <<cryptoData, priceThresholds, inflight, cooldownTimers, now,
                 recordOf, recentDispatch, lastEvent, updates, sweptAt>>

\* the cooldown timer of a record, whenever it runs: sentAlerts.delete(alertKey)
CooldownDelete(key) ==
  /\ UNCHANGED <<connVars, feedVars, initVars>>
  /\ key \in DOMAIN sentAlerts
  /\ sentAlerts' = MapDelete(sentAlerts, key)
  /\ cleaned' = {}
  /\ UNCHANGED <<cryptoData, priceThresholds, inflight, cooldownTimers, now,
                 recordOf, recentDispatch, lastEvent, updates, sweptAt>>

\* the setInterval callback: every record older than maxAlertAge is deleted
CleanupTask ==
  /\ UNCHANGED <<connVars, feedVars, initVars>>
  /\ now = sweptAt + cleanupInterval
  /\ sweptAt' = now
  /\ cleaned' = {key \in DOMAIN sentAlerts : Expired(sentAlerts[key], now)}
  /\ sentAlerts' = [key \in DOMAIN sentAlerts \ cleaned' |-> sentAlerts[key]]
  /\ UNCHANGED <<cryptoData, priceThresholds, inflight, cooldownTimers, now,
                 recordOf, recentDispatch, lastEvent, updates>>

\* time passes; the cleanup task runs when its interval has elapsed
SweepTick ==
  /\ UNCHANGED <<connVars, feedVars, initVars>>
  /\ now + SweepStep <= MaxSweepSteps * SweepStep
  /\ now + SweepStep <= sweptAt + cleanupInterval
  /\ now' = now + SweepStep
  /\ cleaned' = {}
  /\ UNCHANGED <<cryptoData, priceThresholds, sentAlerts, inflight,
                 cooldownTimers, recordOf, recentDispatch, lastEvent, updates,
                 sweptAt>>

NextSweep ==
  \/ \E key \in SweepKeys : RecordAlert(key)
  \/ \E key \in SweepKeys : CooldownDelete(key)
  \/ CleanupTask
  \/ SweepTick

(***************************************************************************)
(* Startup of the application: CryptoMonitorService.init() awaits          *)
(* retry(connect, 3, 2000) and then subscribes the default symbols.  The   *)
(* continuation of an await runs as a microtask, right after the callback  *)
(* that settled the promise and before any other callback.                 *)
(***************************************************************************)
\* new: constructed, init() not called; connecting: awaiting connect();
\* delay: awaiting delay(2000) in retry; running: init() completed;
\* failed: init() threw, main() ends the process
InitPhases == {"new", "connecting", "delay", "running", "failed"}

NoSent == [on |-> NoWs, syms |-> {}]

InitStartup ==
  /\ initPhase = "new"
  /\ awaited = NoWs
  /\ retries = initRetries
  /\ initSent = NoSent

\* the promise of the awaited connect() was settled by the step just taken
Resolved ==
  initPhase = "connecting" /\ lastOut.op = "open" /\ lastOut.on = awaited

Rejected ==
  initPhase = "connecting" /\ lastOut.rejected /\ lastOut.on = awaited

\* init() up to its await: retry calls connect()
InitConnect ==
  /\ UNCHANGED <<alertVars, feedVars, sweepVars>>
  /\ exitCode = Running
  /\ initPhase = "new"
  /\ DoConnect
  /\ initPhase' = "connecting"
  /\ awaited' = ws'
  /\ lastPass' = NoPass
  /\ lastOut' = NoOut
  /\ UNCHANGED <<isConnected, reconnectAttempts, subscribers, heartbeat,
                 reconnectTimers, settleTimers, delays, exhausted,
                 callerClosed, owned, exitCode, retries, initSent>>

\* retry's catch: with retries left await delay(2000), else init() throws
\* and main() calls process.exit(1)
InitRejected ==
  /\ UNCHANGED <<alertVars, feedVars, sweepVars>>
  /\ exitCode = Running
  /\ Rejected
  /\ IF retries > 0
     THEN /\ initPhase' = "delay"
          /\ retries' = retries - 1
          /\ exitCode' = exitCode
     ELSE /\ initPhase' = "failed"
          /\ retries' = retries
          /\ exitCode' = 1
  /\ awaited' = NoWs
  /\ lastPass' = NoPass
  /\ lastOut' = NoOut
  /\ UNCHANGED <<ws, sock, ctimer, isConnected, reconnectAttempts, subscribers,
                 heartbeat, reconnectTimers, settleTimers, delays, exhausted,
                 callerClosed, owned, initSent>>

\* the delay of retry has elapsed: retry calls connect() again
RetryTimerFire ==
  /\ UNCHANGED <<alertVars, feedVars, sweepVars>>
  /\ exitCode = Running
  /\ initPhase = "delay"
  /\ DoConnect
  /\ initPhase' = "connecting"
  /\ awaited' = ws'
  /\ lastPass' = NoPass
  /\ lastOut' = NoOut
  /\ UNCHANGED <<isConnected, reconnectAttempts, subscribers, heartbeat,
                 reconnectTimers, settleTimers, delays, exhausted,
                 callerClosed, owned, exitCode, retries, initSent>>

\* connect() resolved: _subscribeDefaultSymbols calls subscribe(symbol) for
\* every default symbol, then init() completes
InitResolved ==
  /\ UNCHANGED <<alertVars, feedVars, sweepVars>>
  /\ exitCode = Running
  /\ Resolved
  /\ initPhase' = "running"
  /\ awaited' = NoWs
  /\ subscribers' = subscribers \cup Symbols
  /\ initSent' = IF CanSend THEN [on |-> ws, syms |-> Symbols] ELSE NoSent
  /\ lastPass' = NoPass
  /\ lastOut' = [NoOut EXCEPT !.op = "init", !.sent = CanSend,
                              !.on = IF CanSend THEN ws ELSE NoWs]
  /\ UNCHANGED <<ws, sock, ctimer, isConnected, reconnectAttempts, heartbeat,
                 reconnectTimers, settleTimers, delays, exhausted,
                 callerClosed, owned, exitCode, retries>>

\* the callbacks of the manager wait while a continuation of init() is due;
\* a run is followed until the slot of the transport that init() subscribed
\* on would be given to a later transport
NextStartup ==
  \/ InitConnect
  \/ InitRejected
  \/ InitResolved
  \/ ~(Resolved \/ Rejected) /\ RetryTimerFire
  \/ ~(Resolved \/ Rejected) /\ (Unused # {} => NextTransport # initSent.on)
        /\ ReconnectTimerFire
  \/ ~(Resolved \/ Rejected) /\ SettleTimerFire
  \/ ~(Resolved \/ Rejected) /\ \E t \in TransportIds : OnOpen(t)
  \/ ~(Resolved \/ Rejected) /\ \E t \in TransportIds : OnError(t)
  \/ ~(Resolved \/ Rejected) /\ \E t \in TransportIds : OnClose(t)
  \/ ~(Resolved \/ Rejected) /\ \E t \in TransportIds : ConnectTimeout(t)

(***************************************************************************)
(* CryptoMonitorService.addSymbol(symbol, thresholds), called on the       *)
(* application at any time of its life.                                    *)
(***************************************************************************)
\* the symbols given to addSymbol: ADAUSDT, and AUSDT, which isValidSymbol
\* rejects (one letter before USDT); neither has a configured band
AddedSymbols ==
  {<<"A", "D", "A", "U", "S", "D", "T">>, <<"A", "U", "S", "D", "T">>}

\* thresholds = null, the default of the parameter
NoThresholds == <<>>

\* addSymbol: isValidSymbol, subscribe(symbol), and setThresholds only when
\* subscribe returned true and thresholds were given
AddSymbol(symbol, thresholds) ==
  LET valid == IsValidSymbol(symbol)
      success == valid /\ CanSend
  IN
  /\ UNCHANGED <<feedVars, sweepVars, initVars>>
  /\ exitCode = Running
  /\ subscribers' = IF valid THEN subscribers \cup {Str(symbol)} ELSE subscribers
  /\ priceThresholds' =
       IF success /\ thresholds # NoThresholds
       THEN MapSet(priceThresholds, Str(symbol),
                   [min |-> thresholds[1] * Scale, max |-> thresholds[2] * Scale])
       ELSE priceThresholds
  /\ lastPass' = NoPass
  /\ lastOut' = [NoOut EXCEPT !.op = "addSymbol", !.sym = Str(symbol),
                              !.sent = success,
                              !.on = IF success THEN ws ELSE NoWs,
                              !.ret = success]
  /\ UNCHANGED <<ws, sock, ctimer, isConnected, reconnectAttempts, heartbeat,
                 reconnectTimers, settleTimers, delays, exhausted,
                 callerClosed, owned, exitCode>>
  /\ UNCHANGED <<cryptoData, sentAlerts, inflight, cooldownTimers, now, recordOf,
                 recentDispatch, lastEvent, updates>>

\* the startup of the application with addSymbol called in between
NextAddSymbol ==
  \/ NextStartup
  \/ ~(Resolved \/ Rejected)
       /\ \E symbol \in AddedSymbols, thresholds \in {NoThresholds} \cup ThresholdChoices :
            AddSymbol(symbol, thresholds)

(***************************************************************************)
(* The reconnect loop left to itself: after its first connect() the caller *)
(* makes no further call.  Timers that are pending fire (setTimeout), and  *)
(* the ws library delivers 'error' for an aborted transport and 'close'    *)
(* for a closing one; a handshake may hang and an open transport may stay  *)
(* open for ever.                                                          *)
(***************************************************************************)
NextReconnect ==
  \/ Connect
  \/ ReconnectTimerFire
  \/ SettleTimerFire
  \/ \E t \in TransportIds : OnOpen(t)
  \/ \E t \in TransportIds : OnError(t)
  \/ \E t \in TransportIds : OnClose(t)
  \/ \E t \in TransportIds : ConnectTimeout(t)

FairReconnect ==
  /\ WF_vars(ReconnectTimerFire)
  /\ WF_vars(SettleTimerFire)
  /\ \A t \in TransportIds : WF_vars(ConnectTimeout(t))
  /\ \A t \in TransportIds : WF_vars(sock[t] = "ABORTING" /\ OnError(t))
  /\ \A t \in TransportIds : WF_vars(sock[t] = "CLOSING" /\ OnClose(t))

Init == InitConn /\ InitAlert /\ InitFeed /\ InitSweep /\ InitStartup

Spec == Init /\ [][Next]_vars

\* the tracker and the deduplicator, as constructed by CryptoMonitorService
InitOwned == Init /\ owned

SpecAlert == InitOwned /\ [][NextAlert]_vars

\* the symbol codec on its own, for every valid symbol
InitCodec ==
  /\ InitConn
  /\ owned
  /\ InitAlert
  /\ InitSweep
  /\ InitStartup
  /\ codec \in CodecInputs
  /\ frameLog = <<>>

SpecCodec == InitCodec /\ [][NextCodec]_vars

\* ticker frames through the manager into the tracker
SpecFeed == InitOwned /\ [][NextFeed]_vars

\* the cleanup task and the records it is run on
SpecSweep == InitOwned /\ [][NextSweep]_vars

\* the startup of the application and the manager it owns
SpecStartup == InitOwned /\ [][NextStartup]_vars

\* the application with addSymbol called on it
SpecAddSymbol == InitOwned /\ [][NextAddSymbol]_vars

\* the manager, stand-alone or owned, with its reconnect loop left to itself
SpecReconnect == Init /\ [][NextReconnect]_vars /\ FairReconnect

(***************************************************************************)
(* C1  Reconnect backoff and exhaustion: counted from reconnect counter 0, *)
(* while no connect succeeds, the delays handed to the reconnect timer are *)
(* 5000, 10000, 15000, 20000, 25000 in this order; the exhausted signal is *)
(* emitted only after all five, and once it is emitted no further          *)
(* reconnect timer is scheduled.                                           *)
(***************************************************************************)
C1_BackoffAndExhaustion ==
  /\ [](/\ Len(delays) <= 5
        /\ delays = SubSeq(<<5000, 10000, 15000, 20000, 25000>>, 1, Len(delays))
        /\ exhausted => Len(delays) = 5)
  /\ [][exhausted /\ exhausted' => reconnectTimers' <= reconnectTimers]_vars

C1_Witness ==
  /\ exhausted
  /\ delays = <<5000, 10000, 15000, 20000, 25000>>

C3_DisconnectSuppressesReconnect ==
  [][\A t \in callerClosed :
       (sock[t] = "CLOSING" /\ sock'[t] # "CLOSING")
         => /\ reconnectTimers' = reconnectTimers
            /\ reconnectAttempts' = reconnectAttempts]_vars

(***************************************************************************)
(* C4  Shutdown cancels pending timers: disconnect() leaves no reconnect   *)
(* timer pending, and while the service holds no transport after it no     *)
(* reconnect timer opens one.                                              *)
(***************************************************************************)
C4_DisconnectCancelsReconnectTimer ==
  [][/\ Disconnect => reconnectTimers' = 0
     /\ (ws = NoWs /\ ws' # NoWs) => reconnectTimers' = reconnectTimers]_vars

(***************************************************************************)
(* C5  Cooldown deduplication: a crossing is dispatched to the notifier    *)
(* only if no crossing with the same key (symbol, direction) was           *)
(* dispatched less than one cooldown period (60 s) before it, and a        *)
(* crossing with no such earlier dispatch is dispatched.                   *)
(***************************************************************************)
C5_OneDispatchPerCooldown ==
  [][(lastEvent'.kind = "update" /\ lastEvent'.type # "none")
       => (lastEvent'.dispatched <=>
             ~ \E d \in recentDispatch :
                  d.sym = lastEvent'.sym /\ d.type = lastEvent'.type)]_vars

(***************************************************************************)
(* C6  Atomic check-and-insert: for every alert key at most one notifier   *)
(* call is in flight, so of two crossings with the same key of which the   *)
(* second arrives before the first call completed at most one is           *)
(* dispatched.                                                             *)
(***************************************************************************)
C6_AtMostOneInFlightPerKey ==
  \A call \in BagToSet(inflight) : CopiesIn(call, inflight) <= 1

(***************************************************************************)
(* C7  Failed delivery still consumes the cooldown: when the notifier call *)
(* for an alert key has failed, an AlertRecord for that key is in place.   *)
(***************************************************************************)
C7_FailedDeliveryKeepsRecord ==
  (lastEvent.kind = "delivery" /\ ~lastEvent.success)
    => \E k \in DOMAIN sentAlerts : recordOf[k] = <<lastEvent.sym, lastEvent.type>>

(***************************************************************************)
(* C8  Independence of alert keys: a crossing of (symbol, direction) is    *)
(* suppressed exactly when a record set by an alert of the same symbol and *)
(* the same direction is in place; records of other symbols or of the      *)
(* other direction never suppress it.                                      *)
(***************************************************************************)
C8_KeysIndependent ==
  (lastEvent.kind = "update" /\ lastEvent.type # "none")
    => (lastEvent.dispatched <=>
          ~ \E k \in DOMAIN sentAlerts : recordOf[k] = <<lastEvent.sym, lastEvent.type>>)

C8_Witness ==
  /\ lastEvent.kind = "update"
  /\ lastEvent.dispatched
  /\ lastEvent.sym = "BTCUSDT"
  /\ lastEvent.type = "min"
  /\ \E k \in DOMAIN sentAlerts : recordOf[k] = <<"BTCUSDT", "max">>
  /\ \E k \in DOMAIN sentAlerts : recordOf[k] = <<"ETHUSDT", "min">>

(***************************************************************************)
(* C9  Crossing classification: an update of a symbol with a band yields   *)
(* an upper crossing iff price > max, otherwise a lower crossing iff       *)
(* price < min, otherwise none; with both bounds violated it is the upper  *)
(* crossing.                                                               *)
(***************************************************************************)
C9_CrossingClassification ==
  [][lastEvent'.kind = "update" =>
       LET band == priceThresholds[lastEvent'.sym]
           price == lastEvent'.price * 100
       IN /\ (lastEvent'.type = "max") <=> (price > band.max)
          /\ (lastEvent'.type = "min") <=> (price <= band.max /\ price < band.min)
          /\ (lastEvent'.type = "none") <=> (price <= band.max /\ price >= band.min)]_vars

C9_Witness ==
  /\ lastEvent.kind = "update"
  /\ lastEvent.type = "none"
  /\ lastEvent.price = 110
  /\ priceThresholds[lastEvent.sym] = [min |-> 10000, max |-> 11000]

(***************************************************************************)
(* C10  Rebase on crossing: on every crossing at price p, dispatched or    *)
(* suppressed, the band of the symbol becomes {p x 0.99, p x 1.01}; with   *)
(* no crossing the band is left unchanged; the bands of the other symbols  *)
(* are never touched.                                                      *)
(***************************************************************************)
C10_RebaseOnCrossing ==
  [][lastEvent'.kind = "update" =>
       /\ priceThresholds'[lastEvent'.sym] =
            IF lastEvent'.type = "none"
            THEN priceThresholds[lastEvent'.sym]
            ELSE [min |-> lastEvent'.price * 99, max |-> lastEvent'.price * 101]
       /\ \A s \in Symbols \ {lastEvent'.sym} :
            priceThresholds'[s] = priceThresholds[s]]_vars

C10_Witness ==
  /\ lastEvent.kind = "update"
  /\ lastEvent.type = "min"
  /\ lastEvent.price = 95
  /\ ~lastEvent.dispatched
  /\ priceThresholds[lastEvent.sym] = [min |-> 9405, max |-> 9595]

C12_InvalidTicksDropped ==
  [][LET notFinite == {<<"a", "b", "c">>,
                       <<"I", "n", "f", "i", "n", "i", "t", "y">>}
         invalid == {i \in DOMAIN frameLog' :
                       \/ frameLog'[i].item.last \in notFinite
                       \/ frameLog'[i].item.open24h \in notFinite}
     IN /\ \A i \in invalid : ~frameLog'[i].forwarded
        /\ (frameLog' # <<>> /\ invalid = DOMAIN frameLog')
             => /\ cryptoData' = cryptoData
                /\ priceThresholds' = priceThresholds]_vars

(***************************************************************************)
(* C13  Missing band degrades gracefully: for a symbol with no configured  *)
(* band (XRPUSDT), every forwarded tick is stored as its LatestPrice, no   *)
(* tick of it is a crossing or starts a notifier call, and no band is ever *)
(* created for it.                                                         *)
(***************************************************************************)
C13_MissingBandDegrades ==
  LET ofSymbol == {i \in DOMAIN frameLog :
                     frameLog[i].forwarded /\ frameLog[i].symbol = "XRPUSDT"}
  IN /\ "XRPUSDT" \notin DOMAIN priceThresholds
     /\ \A call \in BagToSet(inflight) : call.sym # "XRPUSDT"
     /\ \A i \in ofSymbol :
          frameLog[i].type = "none" /\ ~frameLog[i].dispatched
     /\ ofSymbol # {}
          => /\ "XRPUSDT" \in DOMAIN cryptoData
             /\ \E i \in ofSymbol :
                  /\ \A j \in ofSymbol : j <= i
                  /\ cryptoData["XRPUSDT"] = frameLog[i].price

\* a frame with a crossing of BTCUSDT followed by a tick of XRPUSDT
C13_Witness ==
  /\ Len(frameLog) = 2
  /\ frameLog[1].symbol = "BTCUSDT"
  /\ frameLog[1].dispatched
  /\ frameLog[2].symbol = "XRPUSDT"
  /\ frameLog[2].forwarded
  /\ cryptoData["XRPUSDT"] = 95

(***************************************************************************)
(* C14  Malformed and error frames are non-fatal: an inbound frame that    *)
(* cannot be parsed, or an error event, makes the manager emit exactly an  *)
(* error signal and leaves the connection flag, every transport, the       *)
(* SubscriptionSet, the reconnect counter and the heartbeat as they were;  *)
(* the process keeps running.                                              *)
(***************************************************************************)
C14_BadFramesNonFatal ==
  [][(lastOut'.op = "message" /\ lastOut'.frame \in {"unparseable", "error"})
       => /\ lastOut'.signals = <<[name |-> "error", code |-> 0]>>
          /\ isConnected' = isConnected
          /\ ws' = ws
          /\ sock' = sock
          /\ subscribers' = subscribers
          /\ reconnectAttempts' = reconnectAttempts
          /\ heartbeat' = heartbeat
          /\ exitCode' = Running]_vars

C14_Witness ==
  /\ lastOut.op = "message"
  /\ lastOut.frame = "unparseable"
  /\ isConnected
  /\ heartbeat
  /\ ws # NoWs
  /\ sock[ws] = "OPEN"
  /\ subscribers = {"BTCUSDT"}

(***************************************************************************)
(* C15  subscribe/unsubscribe contract: after subscribe(symbol) the symbol *)
(* is in the SubscriptionSet and after unsubscribe(symbol) it is not, in   *)
(* every connection state; the wire request was sent iff the manager is    *)
(* Connected and its current transport is open; the call returned true iff *)
(* the wire request was sent.                                              *)
(***************************************************************************)
C15_SubscribeContract ==
  /\ lastOut.op = "subscribe" => lastOut.sym \in subscribers
  /\ lastOut.op = "unsubscribe" => lastOut.sym \notin subscribers
  /\ lastOut.op \in {"subscribe", "unsubscribe"}
       => /\ lastOut.sent <=> (isConnected /\ ws # NoWs /\ sock[ws] = "OPEN")
          /\ lastOut.sent => lastOut.on = ws
          /\ lastOut.ret <=> lastOut.sent

\* subscribe while the flag says Connected but the current transport is
\* still connecting: retained, not sent, false returned
C15_Witness ==
  /\ lastOut.op = "subscribe"
  /\ isConnected
  /\ ws # NoWs
  /\ sock[ws] = "CONNECTING"
  /\ ~lastOut.ret
  /\ lastOut.sym \in subscribers

(***************************************************************************)
(* C16 (as claimed)  Symbol codec round trip: for every symbol of 2 to 10  *)
(* uppercase letters followed by USDT, the feed id is the base followed by *)
(* -USDT, and the symbol read back from the feed id is the symbol.         *)
(***************************************************************************)
C16_CodecRoundTrip ==
  /\ codec.feedId # <<>>
       => codec.feedId =
            SubSeq(codec.symbol, 1, Len(codec.symbol) - 4)
              \o <<"-", "U", "S", "D", "T">>
  /\ codec.back # <<>> => codec.back = codec.symbol

(***************************************************************************)
(* C17 (as claimed)  Exhaustion is process-fatal with a failure status:    *)
(* once the exhausted signal has fired in the owning process, the process  *)
(* has terminated with a non-zero exit status.                             *)
(***************************************************************************)
C17_ExhaustionExitsNonZero ==
  (owned /\ exhausted) => exitCode > 0

(***************************************************************************)
(* C18 (as claimed)  Ordering of the connected signal: whenever the        *)
(* connected signal is emitted, the resubscribe pass has run before it in  *)
(* the same callback and has sent a subscribe request for every symbol of  *)
(* the SubscriptionSet.                                                    *)
(***************************************************************************)
C18_ConnectedAfterResubscribe ==
  (\E i \in DOMAIN lastOut.signals : lastOut.signals[i].name = "connected")
    => /\ lastPass.ran
       /\ \A s \in subscribers : s \in lastPass.sent

(***************************************************************************)
(* C19  Close handling post-state: when the close event of a transport has *)
(* been processed, whatever its cause, the heartbeat timer is not running, *)
(* the state is Disconnected, exactly one disconnected signal was emitted  *)
(* and it carries the close code of the event, and a reconnect attempt has *)
(* been scheduled or the exhausted signal emitted.                         *)
(***************************************************************************)
C19_ClosePostState ==
  lastOut.op = "close"
    => LET sig == lastOut.signals
           disconnected == {i \in DOMAIN sig : sig[i].name = "disconnected"}
       IN /\ ~heartbeat
          /\ ~isConnected
          /\ Cardinality(disconnected) = 1
          /\ \A i \in disconnected : sig[i].code = lastOut.code
          /\ \/ lastOut.scheduled # <<>> /\ reconnectTimers > 0
             \/ \E i \in DOMAIN sig : sig[i].name = "maxReconnectAttemptsReached"

\* the close of a stale transport while a later one is open
C19_Witness ==
  /\ lastOut.op = "close"
  /\ lastOut.code = 1006
  /\ lastOut.on # ws
  /\ ws # NoWs
  /\ sock[ws] = "OPEN"
  /\ lastOut.scheduled = <<5000>>

(***************************************************************************)
(* C20  disconnect() post-state and frame: right after disconnect() the    *)
(* heartbeat timer is stopped, the transport the manager held has been     *)
(* asked to close with code 1000 and is closing, the state is              *)
(* Disconnected, the reconnect counter is 0 and the SubscriptionSet is     *)
(* what it was.                                                            *)
(***************************************************************************)
C20_DisconnectPostState ==
  [][lastOut'.op = "disconnect"
       => /\ ~heartbeat'
          /\ ~isConnected'
          /\ reconnectAttempts' = 0
          /\ subscribers' = subscribers
          /\ ws # NoWs
               => /\ lastOut'.closeAsked = <<ws, 1000>>
                  /\ sock[ws] \in {"CONNECTING", "OPEN"}
                       => sock'[ws] \in {"ABORTING", "CLOSING"}]_vars

\* disconnect() of a connected manager while a reconnect timer is pending
C20_Witness ==
  /\ lastOut.op = "disconnect"
  /\ lastOut.closeAsked # <<>>
  /\ sock[lastOut.closeAsked[1]] = "CLOSING"
  /\ subscribers = {"BTCUSDT", "ETHUSDT"}
  /\ reconnectTimers > 0

(***************************************************************************)
(* C21  Reconnect counter discipline: the reconnect counter is 0 right     *)
(* after the open handler of a transport, it is the number of reconnect    *)
(* attempts scheduled since it was last 0 (one increment per scheduled     *)
(* attempt), and in every reachable state it is between 0 and the maximum  *)
(* number of attempts (5).                                                 *)
(***************************************************************************)
C21_CounterDiscipline ==
  /\ reconnectAttempts \in 0..reconnectAttemptsCap
  /\ lastOut.op = "open" => reconnectAttempts = 0
  /\ exitCode = Running => reconnectAttempts = Len(delays)
  /\ (lastOut.op = "close" /\ lastOut.scheduled # <<>>)
       => /\ reconnectAttempts >= 1
          /\ lastOut.scheduled = <<delays[reconnectAttempts]>>

\* the open of a transport that a reconnect timer created: the counter was
\* above 0 when the timer was scheduled
C21_Witness ==
  /\ owned
  /\ lastOut.op = "open"
  /\ lastOut.on = 2
  /\ ws = 2
  /\ reconnectAttempts = 0
  /\ reconnectTimers = 0

(***************************************************************************)
(* C22 (as claimed)  Connect timeout: when the connectTimeout timer of a   *)
(* connect() attempt expires while the transport of that attempt is still  *)
(* connecting, that transport is terminated and the promise of the attempt *)
(* is rejected; the expiry never changes a transport that is open.         *)
(***************************************************************************)
C22_ConnectTimeoutAbortsOwnTransport ==
  [][lastOut'.op = "connectTimeout"
       => /\ sock[lastOut'.on] = "CONNECTING"
               => /\ sock'[lastOut'.on] = "ABORTING"
                  /\ lastOut'.rejected
          /\ \A t \in TransportIds : sock[t] = "OPEN" => sock'[t] = "OPEN"]_vars

(***************************************************************************)
(* C23 (as claimed)  Per-item dropping in a ticker frame: of the items of  *)
(* a ticker frame exactly those whose last and open24h are the texts of    *)
(* finite numbers are forwarded as price updates, whatever the items       *)
(* before them are, and they are forwarded in array order: the price       *)
(* stored for a symbol is that of its last forwarded item.                 *)
(***************************************************************************)
C23_ExactlyValidItemsForwarded ==
  LET notFinite == {<<"a", "b", "c">>, InfinityText}
      valid == {i \in DOMAIN frameLog :
                  /\ frameLog[i].item.last \notin notFinite
                  /\ frameLog[i].item.open24h \notin notFinite}
      forwarded == {i \in DOMAIN frameLog : frameLog[i].forwarded}
  IN /\ forwarded = valid
     /\ \A i \in forwarded :
          (\A j \in forwarded : frameLog[j].symbol = frameLog[i].symbol => j <= i)
            => cryptoData[frameLog[i].symbol] = frameLog[i].price

(***************************************************************************)
(* C24 (as claimed)  One-time missing-band warning: over the updates of a  *)
(* symbol with no configured band the warning about the missing band is    *)
(* recorded at most once, not once per tick.                               *)
(***************************************************************************)
C24_MissingBandWarnedOnce ==
  \A i, j \in DOMAIN frameLog :
    (/\ frameLog[i].warned
     /\ frameLog[j].warned
     /\ frameLog[i].symbol = frameLog[j].symbol) => i = j

(***************************************************************************)
(* C25  Retention sweep: each run of the cleanup task deletes exactly the  *)
(* records whose age (now - fired-at) exceeds maxAlertAge (1 hour) and     *)
(* leaves every other record as it was; hence no record is ever older than *)
(* maxAlertAge plus one cleanup interval, and none is older than           *)
(* maxAlertAge right after a run, even when the cooldown timer of the      *)
(* record never ran.                                                       *)
(***************************************************************************)
C25_RetentionSweep ==
  /\ [](\A key \in DOMAIN sentAlerts :
          /\ now - sentAlerts[key] <= 3600000 + 900000
          /\ sweptAt = now /\ now > 0 => now - sentAlerts[key] <= 3600000)
  /\ [][sweptAt' # sweptAt
         => /\ cleaned' = {key \in DOMAIN sentAlerts :
                             now - sentAlerts[key] > 3600000}
            /\ DOMAIN sentAlerts' = DOMAIN sentAlerts \ cleaned'
            /\ \A key \in DOMAIN sentAlerts' :
                 sentAlerts'[key] = sentAlerts[key]]_vars

\* the run at 75 minutes deletes the record written at 0 and keeps the one
\* written at 15 minutes, whose age is exactly one hour
C25_Witness ==
  /\ now = 4500000
  /\ sweptAt = now
  /\ cleaned = {"BTCUSDT_max_price_exceeded"}
  /\ DOMAIN sentAlerts = {"BTCUSDT_min_price_exceeded"}
  /\ sentAlerts["BTCUSDT_min_price_exceeded"] = 900000

(***************************************************************************)
(* C26  Fire-and-forget notification: when the update of a crossing tick   *)
(* has completed, the price is stored and the band rebased while the       *)
(* notifier call it started is still in flight; and the completion of a    *)
(* notifier call, successful or not, leaves every LatestPrice and every    *)
(* band as it was.                                                         *)
(***************************************************************************)
C26_FireAndForget ==
  /\ []((lastEvent.kind = "update" /\ lastEvent.dispatched)
          => /\ \E call \in BagToSet(inflight) :
                  call.sym = lastEvent.sym /\ call.type = lastEvent.type
             /\ cryptoData[lastEvent.sym] = lastEvent.price
             /\ priceThresholds[lastEvent.sym] =
                  [min |-> lastEvent.price * 99, max |-> lastEvent.price * 101])
  /\ [][lastEvent'.kind = "delivery"
         => /\ cryptoData' = cryptoData
            /\ priceThresholds' = priceThresholds]_vars

\* a tick of ETHUSDT is processed, with a crossing of its own, while the
\* notifier call of an earlier crossing of BTCUSDT is still in flight
C26_Witness ==
  /\ lastEvent.kind = "update"
  /\ lastEvent.sym = "ETHUSDT"
  /\ lastEvent.dispatched
  /\ cryptoData["ETHUSDT"] = lastEvent.price
  /\ \E call \in BagToSet(inflight) : call.sym = "BTCUSDT"
  /\ BagCardinality(inflight) = 2

(***************************************************************************)
(* C27 (as claimed)  Single live transport: in every reachable state,      *)
(* startup with retry(connect, 3, 2000) included, at most one transport    *)
(* of the manager is open or connecting, so connect() is never started     *)
(* while another transport is still open or connecting.                    *)
(***************************************************************************)
C27_SingleLiveTransport ==
  Cardinality({t \in TransportIds : sock[t] \in {"CONNECTING", "OPEN"}}) <= 1

(***************************************************************************)
(* C28 (as claimed)  Connection flag reflects the current transport: in    *)
(* every reachable state isConnected implies that this.ws is set and open, *)
(* and the heartbeat timer runs only while isConnected; an open, close or  *)
(* error callback of a transport that is not the current one changes       *)
(* neither isConnected nor the heartbeat.                                  *)
(***************************************************************************)
C28_FlagReflectsCurrentTransport ==
  /\ [](/\ isConnected => (ws # NoWs /\ sock[ws] = "OPEN")
        /\ heartbeat => isConnected)
  /\ [][(lastOut'.op \in {"open", "close", "error"} /\ lastOut'.on # ws)
         => /\ isConnected' = isConnected
            /\ heartbeat' = heartbeat]_vars

(***************************************************************************)
(* C29 (as claimed)  Connected signal implies Connected state: whenever    *)
(* the connected signal is emitted, the manager is Connected and its       *)
(* current transport is open; so after a close or a disconnect() during    *)
(* the settle delay no connected signal is emitted for that connection.    *)
(***************************************************************************)
C29_ConnectedSignalWhenConnected ==
  (\E i \in DOMAIN lastOut.signals : lastOut.signals[i] = Signal("connected", 0))
    => /\ isConnected
       /\ ws # NoWs
       /\ sock[ws] = "OPEN"

(***************************************************************************)
(* C30 (as claimed)  No duplicate subscribe per connection: on a single    *)
(* established connection no symbol is sent a second subscribe request;    *)
(* in particular the settle-delay resubscribe pass sends none for a symbol *)
(* that init() has already subscribed on that connection.                  *)
(***************************************************************************)
C30_NoDuplicateSubscribe ==
  (lastPass.ran /\ lastPass.on # NoWs /\ lastPass.on = initSent.on)
    => lastPass.sent \cap initSent.syms = {}

(***************************************************************************)
(* C31  Cooldown timer owns its record: a record set for an alert key at   *)
(* time t stays in sentAlerts until t + cooldownPeriod (60 s); the         *)
(* cooldown timer started for an earlier record of the key never deletes a *)
(* later record of the same key.                                           *)
(***************************************************************************)
C31_CooldownTimerOwnsRecord ==
  [][\A key \in DOMAIN sentAlerts :
       key \notin DOMAIN sentAlerts' => now >= sentAlerts[key] + cooldownPeriod]_vars

(***************************************************************************)
(* C32  Rebased band contains the crossing price: after an update at a     *)
(* tick price p > 0 on which a crossing occurred, the band of the symbol   *)
(* has min < p < max (the change threshold is 1%), so the same tick has no *)
(* crossing against it; when the same tick is delivered again right after  *)
(* the crossing, there is no crossing, the bands are not written and no    *)
(* notifier call is started.                                               *)
(***************************************************************************)
C32_RebasedBandContainsPrice ==
  /\ [](\A s \in Symbols :
          (lastEvent.kind = "update" /\ lastEvent.sym = s
             /\ lastEvent.type # "none" /\ lastEvent.price > 0)
            => /\ priceThresholds[s].min < lastEvent.price * Scale
               /\ lastEvent.price * Scale < priceThresholds[s].max
               /\ CrossingType(lastEvent.price, priceThresholds[s]) = "none")
  /\ [][(/\ lastEvent.kind = "update"
         /\ lastEvent.type # "none"
         /\ lastEvent.price > 0
         /\ lastEvent'.kind = "update"
         /\ lastEvent'.sym = lastEvent.sym
         /\ lastEvent'.price = lastEvent.price)
          => /\ lastEvent'.type = "none"
             /\ ~lastEvent'.dispatched
             /\ priceThresholds' = priceThresholds
             /\ inflight' = inflight]_vars

\* BTCUSDT crossed its configured band downwards at 95 and the tick at 95 was
\* delivered again: no crossing, the rebased band and the one call stay
C32_Witness ==
  /\ updates = 2
  /\ lastEvent.kind = "update"
  /\ lastEvent.sym = "BTCUSDT"
  /\ lastEvent.price = 95
  /\ lastEvent.type = "none"
  /\ priceThresholds["BTCUSDT"] = [min |-> 9405, max |-> 9595]
  /\ BagToSet(inflight) = {[key |-> "BTCUSDT_min_price_exceeded",
                            sym |-> "BTCUSDT", type |-> "min"]}
  /\ BagCardinality(inflight) = 1

(***************************************************************************)
(* C33  addSymbol installs the band with the subscription: whenever        *)
(* addSymbol(symbol, thresholds) with a valid symbol and thresholds given  *)
(* leaves the symbol in the subscription set, the band of the symbol is    *)
(* the given {min, max}, connected or not; with an invalid symbol neither  *)
(* the subscription set nor any band changes.                              *)
(***************************************************************************)
C33_AddSymbolInstallsBand ==
  [][\A symbol \in AddedSymbols, thresholds \in ThresholdChoices :
       AddSymbol(symbol, thresholds)
         => IF IsValidSymbol(symbol)
            THEN Str(symbol) \in subscribers'
                   => BandOf(priceThresholds', Str(symbol)) =
                        [min |-> thresholds[1] * Scale,
                         max |-> thresholds[2] * Scale]
            ELSE /\ subscribers' = subscribers
                 /\ priceThresholds' = priceThresholds]_vars

(***************************************************************************)
(* C34  Reconnect progress: when timers fire and the transport delivers    *)
(* its callbacks, every close that the caller did not ask for is followed  *)
(* by a state in which the manager is connected again or has emitted the   *)
(* exhausted signal; the manager is never left with its transport closed,  *)
(* no reconnect timer pending and no exhausted signal emitted.             *)
(***************************************************************************)
C34_ReconnectProgress ==
  /\ (lastOut.op = "close") ~> (isConnected \/ exhausted)
  /\ []((ws # NoWs /\ sock[ws] = "CLOSED" /\ ~exhausted) => reconnectTimers > 0)

\* a stand-alone manager whose first transport closed is connected again on
\* the transport that the reconnect timer opened
C34_Witness ==
  /\ ~owned
  /\ isConnected
  /\ lastOut.op = "open"
  /\ lastOut.on = 2
  /\ ws = 2
  /\ sock[1] = "NONE"

====
